---- MODULE Spec2Model ----
(***************************************************************************)
(* Verification model of the daily-vc-chat relay.                          *)
(*                                                                         *)
(* Server (src/unnamed/part_000): the bounded history buffer, the set of   *)
(* live viewer sockets, the fan-out and the Discord / YouTube handlers.    *)
(* Client (src/unnamed/part_001): the useChatSocket connection manager and *)
(* the chatReducer that folds the received events into the view.           *)
(*                                                                         *)
(* Every handler of the JavaScript program runs to completion on a single  *)
(* thread, so one handler is one action.                                   *)
(***************************************************************************)
EXTENDS Integers, Sequences, FiniteSets, TLC

\* ------------------------------------------------------------------ bounds
MaxViewers == 2
MaxSockets == 2
MaxId == 1
MaxPublishes == 2
MaxTraffic == 1
MaxMutations == 1
MaxLatency == 0
MaxPings == 1
MaxRetries == 11
MaxBacklog == 1
MaxForwards == 3
ExtraAppends == 1

\* ------------------------------------------------------- program constants
MAX_BUFFER_SIZE == 100
VIEW_LIMIT == 100
DELAY_STEP == 500
MAX_BASE_DELAY == 5000
JITTER_SPAN == 400
GROUP_WINDOW_MS == 300000

\* Connection ids: the hub alone is dialed by up to MaxViewers browsers, the
\* connection manager opens up to MaxSockets sockets one after the other.
Conns == 1..(IF MaxViewers > MaxSockets THEN MaxViewers ELSE MaxSockets)
Ids == 1..MaxId
Platforms == {"discord", "youtube"}
MessageContents == {"a"}
EditContents == {"b"}

VARIABLES
  messageBuffer,  \* part_000:11   ChatMessage[]
  clients,        \* part_000:9    Set<ServerWebSocket>, as connection ids
  srv,            \* server side of each connection: "none" | "open" | "closed"
  dead,           \* registered sockets whose transport is gone, close handler pending
  wire,           \* per connection, the frames sent and not yet received by the browser
  joinedAt,       \* per connection, the number of events published before its open
  pubLog,         \* every event handed to broadcastMessage / broadcastChatMessage, in order
  bufferAtSend,   \* messageBuffer as it was when broadcastMessage last ran
  wsState,        \* browser side readyState of each connection
  handlers,       \* connections whose onopen/onmessage/onclose/onerror are attached
  mounted,        \* the useChatSocket effect has run
  cancelled,      \* part_001:133
  connectionState,\* part_001:124
  latencyMs,      \* part_001:126  <<>> is null, <<l>> a value
  retryCount,     \* part_001:127
  retryRef,       \* part_001:130
  socketRef,      \* part_001:128  0 is null
  pingIntervalRef,\* part_001:129  0 is null, else the connection its interval closes over
  intervals,      \* connections with a running setInterval probe
  timers,         \* pending setTimeout(connect, delay) calls
  view,           \* part_001:228  state.messages
  forwarded,      \* number of onMessage callback invocations
  grouped,        \* part_001:256  useMemo(() => groupMessages(state.messages))
  pingsSent       \* number of probe payloads sent

hubVars == <<messageBuffer, clients, srv, dead, joinedAt, pubLog, bufferAtSend>>
netVars == <<wire, wsState>>
mgrVars == <<handlers, mounted, cancelled, connectionState, latencyMs, retryCount,
             retryRef, socketRef, pingIntervalRef, intervals, timers, pingsSent>>
appVars == <<view, forwarded, grouped>>
vars == <<hubVars, netVars, mgrVars, appVars>>

\* ------------------------------------------------------------- data shapes
\* types.ts ChatMessage; `edited` is optional in the source, absent reads as false.
ChatMessage(id, platform, timestamp, content) ==
  [type |-> "message", platform |-> platform, id |-> id, timestamp |-> timestamp,
   author |-> "u", content |-> content, edited |-> FALSE]

DiscordEditedMessage(id, content) ==
  [type |-> "edit", platform |-> "discord", id |-> id, content |-> content]

DeletedMessage(id, platform) ==
  [type |-> "delete", platform |-> platform, id |-> id]

HistoryMessage(messages) ==
  [type |-> "history", messages |-> messages]

\* JSON.stringify of an event is a frame of JSON text; any other frame does not
\* parse.  JSON.parse throws on the latter.
JSONstringify(value) == [json |-> TRUE, value |-> value]

JSONparse(frame) ==
  IF frame.json THEN [ok |-> TRUE, value |-> frame.value] ELSE [ok |-> FALSE]

\* ------------------------------------------------------ the history buffer
\* Array.prototype.splice(0, n): drop the first n elements.
DropFirst(s, n) == SubSeq(s, n + 1, Len(s))

\* mutant: evicts as soon as the capacity is reached
addToBuffer_EvictEarly(buf, message) ==
  LET pushed == Append(buf, message)
  IN IF Len(pushed) >= MAX_BUFFER_SIZE
       THEN DropFirst(pushed, Len(pushed) - MAX_BUFFER_SIZE + 1)
       ELSE pushed

addToBuffer(buf, message) ==
  LET pushed == Append(buf, message)
  IN IF Len(pushed) > MAX_BUFFER_SIZE
       THEN DropFirst(pushed, Len(pushed) - MAX_BUFFER_SIZE)
       ELSE pushed

removeFromBuffer(buf, id) ==
  LET keep(m) == m.id # id
  IN SelectSeq(buf, keep)

editInBuffer(buf, id, content) ==
  [i \in 1..Len(buf) |->
     IF buf[i].id = id
       THEN [buf[i] EXCEPT !.content = content, !.edited = TRUE]
       ELSE buf[i]]

\* messageBuffer.find((m) => m.id === id) is truthy
bufferHasId(buf, id) == \E i \in 1..Len(buf) : buf[i].id = id

\* ------------------------------------------------------------- the fan-out
\* ServerWebSocket.send on a socket whose transport is gone returns 0 (dropped)
\* and does not throw; on a live socket the frame is accepted.  A frame
\* accepted for a peer whose socket is already closed is lost in transit.
sendAccepted(c) == c \notin dead

\* `buffer` is messageBuffer at the moment of the call.
broadcastMessage(payload, buffer) ==
  /\ wire' = [c \in Conns |->
                IF c \in clients /\ sendAccepted(c) /\ wsState[c] # "CLOSED"
                  THEN Append(wire[c], JSONstringify(payload)) ELSE wire[c]]
  /\ pubLog' = Append(pubLog, payload)
  /\ bufferAtSend' = buffer

\* mutant: every new message re-sends the whole snapshot
broadcastChatMessage_Snapshot(message) ==
  /\ messageBuffer' = addToBuffer(messageBuffer, message)
  /\ broadcastMessage(HistoryMessage(addToBuffer(messageBuffer, message)),
                      addToBuffer(messageBuffer, message))

broadcastChatMessage(message) ==
  /\ messageBuffer' = addToBuffer(messageBuffer, message)
  /\ broadcastMessage(message, addToBuffer(messageBuffer, message))

\* ------------------------------------------------------- upstream handlers
messageCreate(id, timestamp, content) ==
  /\ broadcastChatMessage(ChatMessage(id, "discord", timestamp, content))
  /\ UNCHANGED <<clients, srv, dead, joinedAt, wsState, mgrVars, appVars>>

messageUpdate(id, content) ==
  /\ bufferHasId(messageBuffer, id)
  /\ broadcastMessage(DiscordEditedMessage(id, content), messageBuffer)
  /\ messageBuffer' = editInBuffer(messageBuffer, id, content)
  /\ UNCHANGED <<clients, srv, dead, joinedAt, wsState, mgrVars, appVars>>

messageDelete(id) ==
  /\ broadcastMessage(DeletedMessage(id, "discord"), messageBuffer)
  /\ messageBuffer' = removeFromBuffer(messageBuffer, id)
  /\ UNCHANGED <<clients, srv, dead, joinedAt, wsState, mgrVars, appVars>>

addChatItemAction(id, timestamp, content) ==
  /\ broadcastChatMessage(ChatMessage(id, "youtube", timestamp, content))
  /\ UNCHANGED <<clients, srv, dead, joinedAt, wsState, mgrVars, appVars>>

markChatItemAsDeletedAction(id) ==
  /\ broadcastMessage(DeletedMessage(id, "youtube"), messageBuffer)
  /\ messageBuffer' = removeFromBuffer(messageBuffer, id)
  /\ UNCHANGED <<clients, srv, dead, joinedAt, wsState, mgrVars, appVars>>

\* ------------------------------------------------------ websocket handlers
\* mutant: the History event is sent whether or not the buffer is empty
open_AlwaysHistory(c) ==
  /\ srv[c] = "none"
  /\ wsState[c] = "CONNECTING"
  /\ srv' = [srv EXCEPT ![c] = "open"]
  /\ clients' = clients \cup {c}
  /\ joinedAt' = [joinedAt EXCEPT ![c] = Len(pubLog)]
  /\ wire' = [wire EXCEPT ![c] = Append(@, JSONstringify(HistoryMessage(messageBuffer)))]
  /\ UNCHANGED <<messageBuffer, dead, pubLog, bufferAtSend, wsState, mgrVars, appVars>>

\* "/ws" upgrade followed by websocket.open(ws)
open(c) ==
  /\ srv[c] = "none"
  /\ wsState[c] = "CONNECTING"
  /\ srv' = [srv EXCEPT ![c] = "open"]
  /\ clients' = clients \cup {c}
  /\ joinedAt' = [joinedAt EXCEPT ![c] = Len(pubLog)]
  /\ IF Len(messageBuffer) > 0
       THEN wire' = [wire EXCEPT ![c] =
                       Append(@, JSONstringify(HistoryMessage(messageBuffer)))]
       ELSE UNCHANGED wire
  /\ UNCHANGED <<messageBuffer, dead, pubLog, bufferAtSend, wsState, mgrVars, appVars>>

\* websocket.close(ws)
close(c) ==
  /\ srv[c] = "open"
  /\ c \in dead
  /\ clients' = clients \ {c}
  /\ srv' = [srv EXCEPT ![c] = "closed"]
  /\ dead' = dead \ {c}
  /\ UNCHANGED <<messageBuffer, joinedAt, wire, pubLog, bufferAtSend, wsState, mgrVars, appVars>>

\* The transport of a registered socket goes away (peer closed, network lost);
\* the runtime has not dispatched websocket.close yet.
socketDies(c) ==
  /\ srv[c] = "open"
  /\ c \notin dead
  /\ dead' = dead \cup {c}
  /\ UNCHANGED <<messageBuffer, clients, srv, joinedAt, wire, pubLog, bufferAtSend, wsState,
                 mgrVars, appVars>>

\* A browser executes `new WebSocket(url)`.  Viewers are interchangeable, so
\* the connections are numbered in the order the server opens them.
viewerDial(c) ==
  /\ c <= MaxViewers
  /\ wsState[c] = "NONE"
  /\ \A d \in Conns : d < c => srv[d] # "none"
  /\ wsState' = [wsState EXCEPT ![c] = "CONNECTING"]
  /\ UNCHANGED <<hubVars, wire, mgrVars, appVars>>

\* ------------------------------------------------------------ the reducer
\* [...payload].sort((a, b) => a.timestamp - b.timestamp): a stable sort, so
\* entries of equal timestamp keep their order.
sortByTimestamp(s) ==
  LET earlier(i, j) ==
        \/ s[i].timestamp < s[j].timestamp
        \/ s[i].timestamp = s[j].timestamp /\ i < j
      order == SortSeq([i \in 1..Len(s) |-> i], earlier)
  IN [k \in 1..Len(s) |-> s[order[k]]]

\* Array.prototype.slice(-n): the last n elements
LastN(s, n) == IF Len(s) > n THEN SubSeq(s, Len(s) - n + 1, Len(s)) ELSE s

\* mutant: the delete case matches on the id alone
chatReducer_DeleteById(messages, action) ==
  CASE action.type = "history" -> sortByTimestamp(action.payload)
    [] action.type = "add-message" -> LastN(Append(messages, action.payload), VIEW_LIMIT)
    [] action.type = "edit" ->
         [i \in 1..Len(messages) |->
            IF messages[i].id = action.payload.id
              THEN [messages[i] EXCEPT !.content = action.payload.content, !.edited = TRUE]
              ELSE messages[i]]
    [] action.type = "delete" ->
         LET keep(m) == m.id # action.payload.id
         IN SelectSeq(messages, keep)
    [] OTHER -> messages

\* mutant: the edit case matches on the platform as well
chatReducer_EditByPlatform(messages, action) ==
  CASE action.type = "history" -> sortByTimestamp(action.payload)
    [] action.type = "add-message" -> LastN(Append(messages, action.payload), VIEW_LIMIT)
    [] action.type = "edit" ->
         [i \in 1..Len(messages) |->
            IF messages[i].id = action.payload.id
                 /\ messages[i].platform = action.payload.platform
              THEN [messages[i] EXCEPT !.content = action.payload.content, !.edited = TRUE]
              ELSE messages[i]]
    [] action.type = "delete" ->
         LET keep(m) == ~(m.platform = action.payload.platform /\ m.id = action.payload.id)
         IN SelectSeq(messages, keep)
    [] OTHER -> messages

\* mutant: add-message without its slice(-100)
chatReducer_NoSlice(messages, action) ==
  CASE action.type = "history" -> sortByTimestamp(action.payload)
    [] action.type = "add-message" -> Append(messages, action.payload)
    [] action.type = "edit" ->
         [i \in 1..Len(messages) |->
            IF messages[i].id = action.payload.id
              THEN [messages[i] EXCEPT !.content = action.payload.content, !.edited = TRUE]
              ELSE messages[i]]
    [] action.type = "delete" ->
         LET keep(m) == ~(m.platform = action.payload.platform /\ m.id = action.payload.id)
         IN SelectSeq(messages, keep)
    [] OTHER -> messages

chatReducer(messages, action) ==
  CASE action.type = "history" -> sortByTimestamp(action.payload)
    [] action.type = "add-message" -> LastN(Append(messages, action.payload), VIEW_LIMIT)
    [] action.type = "edit" ->
         [i \in 1..Len(messages) |->
            IF messages[i].id = action.payload.id
              THEN [messages[i] EXCEPT !.content = action.payload.content, !.edited = TRUE]
              ELSE messages[i]]
    [] action.type = "delete" ->
         LET keep(m) == ~(m.platform = action.payload.platform /\ m.id = action.payload.id)
         IN SelectSeq(messages, keep)
    [] OTHER -> messages

\* handleIncoming: the dispatch made for a received event, none for an unknown tag
handleIncoming(messages, msg) ==
  CASE msg.type = "history" -> chatReducer(messages, [type |-> "history", payload |-> msg.messages])
    [] msg.type = "message" -> chatReducer(messages, [type |-> "add-message", payload |-> msg])
    [] msg.type = "edit" -> chatReducer(messages, [type |-> "edit", payload |-> msg])
    [] msg.type = "delete" -> chatReducer(messages, [type |-> "delete", payload |-> msg])
    [] OTHER -> messages

\* ------------------------------------------------------------ the grouping
Abs(x) == IF x < 0 THEN -x ELSE x

\* { id: message.id, first: message, messages: [message] }
newGroup(message) == [id |-> message.id, first |-> message, messages |-> <<message>>]

\* mutant: the window is measured from the previous message
groupStep_AnchorPrevious(groups, message) ==
  IF groups = <<>> THEN <<newGroup(message)>>
  ELSE LET current == groups[Len(groups)]
           last == current.messages[Len(current.messages)]
           sameAuthor == message.platform = last.platform /\ message.author = last.author
           withinWindow == Abs(last.timestamp - message.timestamp) <= GROUP_WINDOW_MS
       IN IF sameAuthor /\ withinWindow
            THEN [groups EXCEPT ![Len(groups)].messages = Append(@, message)]
            ELSE Append(groups, newGroup(message))

\* mutant: a message that does not fit the current group takes its place
groupStep_ReplaceCurrent(groups, message) ==
  IF groups = <<>> THEN <<newGroup(message)>>
  ELSE LET current == groups[Len(groups)]
           last == current.messages[Len(current.messages)]
           sameAuthor == message.platform = last.platform /\ message.author = last.author
           withinWindow == Abs(current.first.timestamp - message.timestamp) <= GROUP_WINDOW_MS
       IN IF sameAuthor /\ withinWindow
            THEN [groups EXCEPT ![Len(groups)].messages = Append(@, message)]
            ELSE [groups EXCEPT ![Len(groups)] = newGroup(message)]

\* One pass of the loop body of groupMessages; `current` is the last group
\* pushed.
groupStep(groups, message) ==
  IF groups = <<>> THEN <<newGroup(message)>>
  ELSE LET current == groups[Len(groups)]
           last == current.messages[Len(current.messages)]
           sameAuthor == message.platform = last.platform /\ message.author = last.author
           withinWindow == Abs(current.first.timestamp - message.timestamp) <= GROUP_WINDOW_MS
       IN IF sameAuthor /\ withinWindow
            THEN [groups EXCEPT ![Len(groups)].messages = Append(@, message)]
            ELSE Append(groups, newGroup(message))

\* `for (const message of messages)`: the passes in order, first half of the
\* messages and then the second.
RECURSIVE groupLoop(_, _)
groupLoop(groups, messages) ==
  IF messages = <<>> THEN groups
  ELSE IF Len(messages) = 1 THEN groupStep(groups, messages[1])
  ELSE LET half == Len(messages) \div 2
           sofar == groupLoop(groups, SubSeq(messages, 1, half))
       IN IF Len(sofar) > 0
            THEN groupLoop(sofar, SubSeq(messages, half + 1, Len(messages)))
            ELSE sofar

groupMessages(messages) == groupLoop(<<>>, messages)

\* --------------------------------------------------- the connection manager
\* WebSocket.close(): a socket that is connecting or open starts closing
wsClose(state) == IF state \in {"CONNECTING", "OPEN"} THEN "CLOSING" ELSE state

\* The refs and browser objects the cleanup helpers touch, as one record.
refs ==
  [socketRef |-> socketRef, pingIntervalRef |-> pingIntervalRef, handlers |-> handlers,
   intervals |-> intervals, wsState |-> wsState, wire |-> wire]

cleanupSocket(r) ==
  IF r.socketRef # 0
    THEN [r EXCEPT !.handlers = @ \ {r.socketRef},
                   !.wsState[r.socketRef] = wsClose(@),
                   !.socketRef = 0]
    ELSE r

cleanupPing(r) ==
  IF r.pingIntervalRef # 0
    THEN [r EXCEPT !.intervals = @ \ {r.pingIntervalRef}, !.pingIntervalRef = 0]
    ELSE r

setRefs(r) ==
  /\ socketRef' = r.socketRef
  /\ pingIntervalRef' = r.pingIntervalRef
  /\ handlers' = r.handlers
  /\ intervals' = r.intervals
  /\ wsState' = r.wsState
  /\ wire' = r.wire

\* The next unused connection id: `new WebSocket(url)` makes a fresh socket.
freshConn(ws) == CHOOSE c \in Conns : ws[c] = "NONE" /\ \A d \in Conns : d < c => ws[d] # "NONE"
socketsLeft == \E c \in 1..MaxSockets : wsState[c] = "NONE"

\* Math.min(5000, 500 * n)
Min(a, b) == IF a <= b THEN a ELSE b
\* mutant: the linear backoff without its cap
baseDelay_NoCap(n) == DELAY_STEP * n

baseDelay(n) == Min(MAX_BASE_DELAY, DELAY_STEP * n)

\* window.setTimeout(connect, baseDelay + jitter), scheduled at retry n
reconnectTimer(n, jitter) ==
  [base |-> baseDelay(n), jitter |-> jitter, delay |-> baseDelay(n) + jitter]

\* mutant: connect() without its `if (cancelled) return`
connect_NoCancelCheck ==
  LET r == cleanupPing(cleanupSocket(refs))
      c == freshConn(r.wsState)
  IN /\ connectionState' = "connecting"
     /\ setRefs([r EXCEPT !.wsState[c] = "CONNECTING", !.socketRef = c,
                          !.handlers = @ \cup {c}])

\* connect(): lines 153-213 up to the handlers' registration
connect ==
  IF cancelled
    THEN UNCHANGED <<socketRef, pingIntervalRef, handlers, intervals, wsState, wire,
                     connectionState>>
    ELSE LET r == cleanupPing(cleanupSocket(refs))
             c == freshConn(r.wsState)
         IN /\ connectionState' = "connecting"
            /\ setRefs([r EXCEPT !.wsState[c] = "CONNECTING", !.socketRef = c,
                                 !.handlers = @ \cup {c}])

\* the effect body: connect() at mount
mount ==
  /\ ~mounted
  /\ mounted' = TRUE
  /\ connect
  /\ UNCHANGED <<hubVars, appVars, cancelled, latencyMs, retryCount, retryRef, timers,
                 pingsSent>>

\* the effect's cleanup function
teardown ==
  /\ mounted
  /\ ~cancelled
  /\ cancelled' = TRUE
  /\ setRefs(cleanupSocket(cleanupPing(refs)))
  /\ UNCHANGED <<hubVars, appVars, mounted, connectionState, latencyMs, retryCount,
                 retryRef, timers, pingsSent>>

\* a pending setTimeout(connect, delay) fires
timerFires(i) ==
  /\ i \in 1..Len(timers)
  /\ cancelled \/ socketsLeft
  /\ timers' = SubSeq(timers, 1, i - 1) \o SubSeq(timers, i + 1, Len(timers))
  /\ connect
  /\ UNCHANGED <<hubVars, appVars, mounted, cancelled, latencyMs, retryCount, retryRef,
                 pingsSent>>

\* The browser reports the connection open; ws.onopen runs if attached.
openEvent(c, elapsed) ==
  /\ wsState[c] = "CONNECTING"
  /\ srv[c] # "none"
  /\ wsState' = [wsState EXCEPT ![c] = "OPEN"]
  /\ IF c \in handlers /\ ~cancelled
       THEN /\ connectionState' = "connected"
            /\ retryCount' = 0
            /\ latencyMs' = <<elapsed>>
            /\ intervals' = intervals \cup {c}
            /\ pingIntervalRef' = c
       ELSE UNCHANGED <<connectionState, retryCount, latencyMs, intervals, pingIntervalRef>>
  /\ UNCHANGED <<hubVars, appVars, wire, handlers, mounted, cancelled, retryRef, socketRef,
                 timers, pingsSent>>

\* A frame arrives (a closing socket still receives until the close
\* completes); ws.onmessage runs if attached.
messageEvent(c) ==
  /\ wsState[c] \in {"OPEN", "CLOSING"}
  /\ wire[c] # <<>>
  /\ wire' = [wire EXCEPT ![c] = Tail(@)]
  /\ LET data == JSONparse(Head(wire[c]))
     IN IF c \in handlers /\ data.ok /\ data.value.type # "ping"
          THEN /\ view' = handleIncoming(view, data.value)
               /\ forwarded' = forwarded + 1
               /\ grouped' = groupMessages(view')
          ELSE UNCHANGED <<view, forwarded, grouped>>
  /\ UNCHANGED <<hubVars, wsState, mgrVars>>

\* mutant: ws.onclose without its setTimeout(connect, ...)
closeEvent_NoReconnect(c, jitter) ==
  /\ wsState[c] \in {"CONNECTING", "OPEN", "CLOSING"}
  /\ IF c \in handlers /\ ~cancelled
       THEN LET r == cleanupPing([refs EXCEPT !.wsState[c] = "CLOSED", !.wire[c] = <<>>])
            IN /\ setRefs(r)
               /\ connectionState' = "disconnected"
               /\ retryRef' = retryRef + 1
               /\ retryCount' = retryRef + 1
               /\ UNCHANGED timers
       ELSE /\ wsState' = [wsState EXCEPT ![c] = "CLOSED"]
            /\ wire' = [wire EXCEPT ![c] = <<>>]
            /\ UNCHANGED <<socketRef, pingIntervalRef, handlers, intervals, connectionState,
                           retryRef, retryCount, timers>>
  /\ UNCHANGED <<hubVars, appVars, mounted, cancelled, latencyMs, pingsSent>>

\* mutant: ws.onclose without its cleanupPing()
closeEvent_NoCleanupPing(c, jitter) ==
  /\ wsState[c] \in {"CONNECTING", "OPEN", "CLOSING"}
  /\ IF c \in handlers /\ ~cancelled
       THEN /\ setRefs([refs EXCEPT !.wsState[c] = "CLOSED", !.wire[c] = <<>>])
            /\ connectionState' = "disconnected"
            /\ retryRef' = retryRef + 1
            /\ retryCount' = retryRef + 1
            /\ timers' = Append(timers, reconnectTimer(retryRef + 1, jitter))
       ELSE /\ wsState' = [wsState EXCEPT ![c] = "CLOSED"]
            /\ wire' = [wire EXCEPT ![c] = <<>>]
            /\ UNCHANGED <<socketRef, pingIntervalRef, handlers, intervals, connectionState,
                           retryRef, retryCount, timers>>
  /\ UNCHANGED <<hubVars, appVars, mounted, cancelled, latencyMs, pingsSent>>

\* The connection ends (a failure fires error, then close; a clean end only
\* close).  ws.onerror calls ws.close(), which does nothing on a closed socket;
\* ws.onclose runs if attached.
closeEvent(c, jitter) ==
  /\ wsState[c] \in {"CONNECTING", "OPEN", "CLOSING"}
  /\ IF c \in handlers /\ ~cancelled
       THEN LET r == cleanupPing([refs EXCEPT !.wsState[c] = "CLOSED", !.wire[c] = <<>>])
            IN /\ setRefs(r)
               /\ connectionState' = "disconnected"
               /\ retryRef' = retryRef + 1
               /\ retryCount' = retryRef + 1
               /\ timers' = Append(timers, reconnectTimer(retryRef + 1, jitter))
       ELSE /\ wsState' = [wsState EXCEPT ![c] = "CLOSED"]
            /\ wire' = [wire EXCEPT ![c] = <<>>]
            /\ UNCHANGED <<socketRef, pingIntervalRef, handlers, intervals, connectionState,
                           retryRef, retryCount, timers>>
  /\ UNCHANGED <<hubVars, appVars, mounted, cancelled, latencyMs, pingsSent>>

\* the setInterval callback registered by onopen of connection c
pingTick(c, elapsed) ==
  /\ c \in intervals
  /\ IF wsState[c] # "OPEN"
       THEN UNCHANGED <<pingsSent, latencyMs>>
       ELSE /\ pingsSent' = pingsSent + 1
            /\ latencyMs' = <<elapsed>>
  /\ UNCHANGED <<hubVars, netVars, appVars, handlers, mounted, cancelled, connectionState,
                 retryCount, retryRef, socketRef, pingIntervalRef, intervals, timers>>

\* ---------------------------------------------------------- specifications
Init ==
  /\ messageBuffer = <<>>
  /\ clients = {}
  /\ srv = [c \in Conns |-> "none"]
  /\ dead = {}
  /\ wire = [c \in Conns |-> <<>>]
  /\ joinedAt = [c \in Conns |-> 0]
  /\ pubLog = <<>>
  /\ bufferAtSend = <<>>
  /\ wsState = [c \in Conns |-> "NONE"]
  /\ handlers = {}
  /\ mounted = FALSE
  /\ cancelled = FALSE
  /\ connectionState = "connecting"
  /\ latencyMs = <<>>
  /\ retryCount = 0
  /\ retryRef = 0
  /\ socketRef = 0
  /\ pingIntervalRef = 0
  /\ intervals = {}
  /\ timers = <<>>
  /\ view = <<>>
  /\ forwarded = 0
  /\ grouped = <<>>
  /\ pingsSent = 0

\* One upstream event, its fields drawn from the given sets.
Publish(ids, tss, contents, edits) ==
  \/ \E id \in ids, ts \in tss, content \in contents : messageCreate(id, ts, content)
  \/ \E id \in ids, content \in edits : messageUpdate(id, content)
  \/ \E id \in ids : messageDelete(id)
  \/ \E id \in ids, ts \in tss, content \in contents : addChatItemAction(id, ts, content)
  \/ \E id \in ids : markChatItemAsDeletedAction(id)

NextHub ==
  \/ Len(pubLog) < MaxPublishes /\ Publish(Ids, {1}, MessageContents, EditContents)
  \/ \E c \in Conns : viewerDial(c)
  \/ \E c \in Conns : open(c)
  \/ \E c \in Conns : socketDies(c)
  \/ \E c \in Conns : close(c)

SpecHub == Init /\ [][NextHub]_vars

\* In SpecHub no frame is ever received, so wire[c] is the whole stream the
\* server sent on connection c.
frameOf(e) == JSONstringify(e)
published == Len(pubLog') = Len(pubLog) + 1
lastPublished == pubLog'[Len(pubLog')]
hasEntry(buf, id, platform) ==
  \E i \in 1..Len(buf) : buf[i].id = id /\ buf[i].platform = platform

\* C2: fan-out isolation.  When an event is published and the send to a
\* registered connection fails, every other registered connection is still
\* sent the event and the failing connection has left the membership set
\* after the publish.
C2_FanOutIsolation ==
  [][(published /\ clients \cap dead # {}) =>
       \A c \in clients :
         IF c \in dead
           THEN c \notin clients'
           ELSE wire'[c] = Append(wire[c], frameOf(lastPublished))]_vars

\* The buffer after the events e[1..n], replayed from the empty buffer.
RECURSIVE bufferAfter(_, _)
bufferAfter(log, n) ==
  IF n = 0 THEN <<>>
  ELSE LET before == bufferAfter(log, n - 1)
           e == log[n]
       IN CASE e.type = "message" -> addToBuffer(before, e)
            [] e.type = "edit" -> editInBuffer(before, e.id, e.content)
            [] e.type = "delete" -> removeFromBuffer(before, e.id)

framesOf(log, from) == [i \in 1..(Len(log) - from) |-> frameOf(log[from + i])]
historyOf(buf) == IF buf = <<>> THEN <<>> ELSE <<frameOf(HistoryMessage(buf))>>

\* C4: joins and publishes are linearizable.  For every registered
\* connection the stream sent to it is the History of the buffer as the
\* publishes before its join left it (nothing if that buffer was empty),
\* followed by every event published since the join, in publish order.
C4_JoinPublishLinearizable ==
  \A c \in clients :
    wire[c] = historyOf(bufferAfter(pubLog, joinedAt[c])) \o framesOf(pubLog, joinedAt[c])

\* C5: on every connection at most one History event is sent, and it is the
\* first event sent on that connection.
C5_HistoryFirstAndOnce ==
  \A c \in Conns : \A i \in 1..Len(wire[c]) :
    wire[c][i].value.type = "history" => i = 1

C5_Witness ==
  \E c \in clients :
    /\ Len(wire[c]) >= 2
    /\ wire[c][1].value.type = "history"
    /\ wire[c][2].value.type = "message"

\* C6: a join sends one History event holding exactly the buffer's entries in
\* buffer order if the buffer is non-empty, and sends nothing if it is empty.
C6_JoinSendsHistoryIffNonEmpty ==
  [][\A c \in Conns :
       (c \notin clients /\ c \in clients') =>
         /\ wire[c] = <<>>
         /\ wire'[c] = IF messageBuffer = <<>> THEN <<>>
                       ELSE <<frameOf(HistoryMessage(messageBuffer))>>]_vars

C6_Witness ==
  \E c, d \in clients :
    /\ wire[c] = <<>>
    /\ Len(wire[d]) = 1
    /\ wire[d][1].value.type = "history"
    /\ Len(wire[d][1].value.messages) = 2
    /\ wire[d][1].value.messages = messageBuffer

\* C7: a delete whose (id, platform) matches no buffer entry leaves the
\* buffer unchanged.
C7_DeleteOnMiss ==
  [][(published /\ lastPublished.type = "delete"
        /\ ~hasEntry(messageBuffer, lastPublished.id, lastPublished.platform))
       => messageBuffer' = messageBuffer]_vars

\* C8: an edit whose (id, platform) matches no buffer entry leaves the buffer
\* unchanged.
C8_EditOnMiss ==
  [][(published /\ lastPublished.type = "edit"
        /\ ~hasEntry(messageBuffer, lastPublished.id, lastPublished.platform))
       => messageBuffer' = messageBuffer]_vars

\* The buffer alone, driven to its capacity and past it: message n has id n
\* and timestamp n, from Discord when n is odd and from YouTube when even.
\* Edits and deletes (of the oldest entry, the newest one, or an evicted id)
\* come in once the buffer is within one entry of its capacity.
isMessage(e) == e.type = "message"
appended == Len(SelectSeq(pubLog, isMessage))
mutationTargets ==
  {1, appended} \cup (IF messageBuffer = <<>> THEN {} ELSE {messageBuffer[1].id})

NextBuffer ==
  \/ /\ appended < MAX_BUFFER_SIZE + ExtraAppends
     /\ appended % 2 = 0
     /\ messageCreate(appended + 1, appended + 1, "a")
  \/ /\ appended < MAX_BUFFER_SIZE + ExtraAppends
     /\ appended % 2 = 1
     /\ addChatItemAction(appended + 1, appended + 1, "a")
  \/ /\ Len(pubLog) - appended < MaxMutations
     /\ Len(messageBuffer) >= MAX_BUFFER_SIZE - 1
     /\ \E id \in mutationTargets :
          \/ messageUpdate(id, "b")
          \/ messageDelete(id)
          \/ markChatItemAsDeletedAction(id)

SpecBuffer == Init /\ [][NextBuffer]_vars

\* C1: the buffer never holds more than MAX_BUFFER_SIZE entries, and after
\* appends only (N of them) it is exactly the last min(N, MAX_BUFFER_SIZE)
\* appended messages in arrival order.
C1_BufferBound ==
  /\ Len(messageBuffer) <= MAX_BUFFER_SIZE
  /\ appended = Len(pubLog) =>
       messageBuffer = SubSeq(pubLog, Len(pubLog) - Min(Len(pubLog), MAX_BUFFER_SIZE) + 1,
                              Len(pubLog))

C1_Witness ==
  /\ appended = Len(pubLog)
  /\ Len(pubLog) > MAX_BUFFER_SIZE
  /\ Len(messageBuffer) = MAX_BUFFER_SIZE
  /\ messageBuffer[1] = pubLog[Len(pubLog) - MAX_BUFFER_SIZE + 1]

Latencies == 0..MaxLatency
Jitters == {0, JITTER_SPAN - 1}

\* The server's socket handlers and the whole client.
Relay ==
  \/ \E c \in Conns : open(c)
  \/ \E c \in Conns : socketDies(c)
  \/ \E c \in Conns : close(c)
  \/ mount
  \/ teardown
  \/ \E i \in 1..Len(timers) : timerFires(i)
  \/ \E c \in Conns, l \in Latencies : openEvent(c, l)
  \/ \E c \in Conns : messageEvent(c)
  \/ \E c \in Conns, j \in Jitters : closeEvent(c, j)
  \/ \E c \in Conns, l \in Latencies : pingsSent < MaxPings /\ pingTick(c, l)

\* The relay under light traffic: the connection manager's claims.
Next ==
  \/ Len(pubLog) < MaxTraffic /\ Publish({1}, {1}, MessageContents, EditContents)
  \/ Relay

\* The relay with enough traffic for the client's view to drift.
NextSync ==
  \/ Len(pubLog) < MaxPublishes /\ Publish({1}, {1}, MessageContents, EditContents)
  \/ Relay

SpecSync == Init /\ [][NextSync]_vars

Spec == Init /\ [][Next]_vars

\* The two sequences hold the same messages, each as often (order aside).
occurrences(s, m) == Cardinality({i \in 1..Len(s) : s[i] = m})
sameMessages(s, t) ==
  /\ Len(s) = Len(t)
  /\ \A i \in 1..Len(s) : occurrences(s, s[i]) = occurrences(t, s[i])

\* The manager is connected on connection c, which the server has joined,
\* nothing was published since that join and every frame sent was reduced.
settledAfterJoin(c) ==
  /\ socketRef = c
  /\ connectionState = "connected"
  /\ c \in clients
  /\ joinedAt[c] = Len(pubLog)
  /\ wire[c] = <<>>

\* C3: after a (re)connect, once the client has reduced everything the Hub
\* sent it on join, its view holds exactly the messages of the server buffer.
C3_ReconnectHeals ==
  \A c \in Conns : settledAfterJoin(c) => sameMessages(view, messageBuffer)

\* C9: a close that follows Connected schedules the reconnect with retry
\* count 1, that is with the base delay DELAY_STEP.
C9_RetryResetOnConnected ==
  [][(connectionState = "connected" /\ connectionState' = "disconnected") =>
       /\ retryCount' = 1
       /\ timers'[Len(timers')].base = DELAY_STEP]_vars

\* C10: once torn down the manager stays torn down, opens no connection,
\* keeps its exposed state, latency and retry count, forwards no event to
\* the callback and sends no probe.
dialed == {c \in Conns : wsState[c] # "NONE"}

C10_TeardownPermanent ==
  [][cancelled =>
       /\ cancelled'
       /\ dialed' = dialed
       /\ connectionState' = connectionState
       /\ latencyMs' = latencyMs
       /\ retryCount' = retryCount
       /\ forwarded' = forwarded
       /\ pingsSent' = pingsSent]_vars

\* torn down while the backoff timer was pending, and the timer has fired
C10_Witness ==
  /\ cancelled
  /\ connectionState = "disconnected"
  /\ retryRef >= 1
  /\ timers = <<>>

\* The connection manager alone, retrying.  It starts after k consecutive
\* failed attempts (k closes while connecting, each followed by its timer), on
\* the socket of attempt k + 1; nothing is published.  A timer that is set
\* fires eventually.
InitRetry ==
  /\ messageBuffer = <<>>
  /\ clients = {}
  /\ srv = [c \in Conns |-> "none"]
  /\ dead = {}
  /\ wire = [c \in Conns |-> <<>>]
  /\ joinedAt = [c \in Conns |-> 0]
  /\ pubLog = <<>>
  /\ bufferAtSend = <<>>
  /\ wsState = [c \in Conns |-> IF c = 1 THEN "CONNECTING" ELSE "NONE"]
  /\ handlers = {1}
  /\ mounted = TRUE
  /\ cancelled = FALSE
  /\ connectionState = "connecting"
  /\ latencyMs = <<>>
  /\ retryRef \in 0..MaxRetries
  /\ retryCount = retryRef
  /\ socketRef = 1
  /\ pingIntervalRef = 0
  /\ intervals = {}
  /\ timers = <<>>
  /\ view = <<>>
  /\ forwarded = 0
  /\ grouped = <<>>
  /\ pingsSent = 0

NextRetry ==
  \/ \E c \in Conns : open(c)
  \/ \E c \in Conns : socketDies(c)
  \/ \E c \in Conns : close(c)
  \/ teardown
  \/ \E i \in 1..Len(timers) : timerFires(i)
  \/ \E c \in Conns, l \in Latencies : openEvent(c, l)
  \/ \E c \in Conns, j \in Jitters : closeEvent(c, j)
  \/ \E c \in Conns, l \in Latencies : pingsSent < MaxPings /\ pingTick(c, l)

SpecRetry ==
  InitRetry /\ [][NextRetry]_vars /\ WF_vars(\E i \in 1..Len(timers) : timerFires(i))

\* C11: whenever the manager is disconnected and not torn down (and the
\* model has a socket left to open), it enters Connecting again unless it is
\* torn down first, whatever the number of failed attempts before.
C11_RetriesIndefinitely ==
  (connectionState = "disconnected" /\ ~cancelled /\ socketsLeft)
    ~> (connectionState = "connecting" \/ cancelled)

\* connecting again after more failed attempts than the backoff cap covers
C11_Witness ==
  /\ connectionState = "connecting"
  /\ ~cancelled
  /\ socketRef = 2
  /\ retryRef > MAX_BASE_DELAY \div DELAY_STEP

\* The base delay the claim states for retry n.
statedBaseDelay(n) == IF n >= 10 THEN 5000 ELSE 500 * n

\* C12: the reconnect scheduled at retry n >= 1 fires after
\* min(5000, 500 n) ms plus a jitter in [0, 400): linear up to n = 10 and
\* 5000 ms from there on.
C12_BackoffDelay ==
  \A i \in 1..Len(timers) :
    /\ retryRef >= 1
    /\ timers[i].base = statedBaseDelay(retryRef)
    /\ timers[i].delay - timers[i].base >= 0
    /\ timers[i].delay - timers[i].base < 400

C12_Witness ==
  /\ timers # <<>>
  /\ retryRef > 10
  /\ timers[1].base = 5000
  /\ timers[1].delay = 5399

\* Frames the server's own code never sends: text that is not JSON, the
\* probe echo, and an event whose type tag the client does not know.
StrayFrames ==
  {[json |-> FALSE], JSONstringify([type |-> "ping"]), JSONstringify([type |-> "typing"])}

\* Something on the path (a proxy, another server build) puts a frame of its
\* own on an open connection.
frameArrives(c, frame) ==
  /\ wsState[c] = "OPEN"
  /\ Len(wire[c]) < MaxBacklog
  /\ wire' = [wire EXCEPT ![c] = Append(@, frame)]
  /\ UNCHANGED <<hubVars, wsState, mgrVars, appVars>>

\* The client on a connection that carries the server's events and stray
\* frames.
NextFrames ==
  \/ Len(pubLog) < MaxTraffic /\ \E id \in Ids : messageCreate(id, 1, "a")
  \/ \E c \in Conns : open(c)
  \/ mount
  \/ \E i \in 1..Len(timers) : timerFires(i)
  \/ \E c \in Conns, l \in Latencies : openEvent(c, l)
  \/ \E c \in Conns : messageEvent(c)
  \/ \E c \in Conns, j \in Jitters : closeEvent(c, j)
  \/ \E c \in Conns, frame \in StrayFrames : forwarded < MaxForwards /\ frameArrives(c, frame)

SpecFrames == Init /\ [][NextFrames]_vars

knownEvent(frame) ==
  /\ JSONparse(frame).ok
  /\ JSONparse(frame).value.type \in {"history", "message", "edit", "delete"}

\* C13: a received payload that does not parse as a known event (not JSON,
\* an unknown type tag, the ping tag) is consumed without an invocation of the
\* onMessage callback.
C13_CallbackOnlyForKnownEvents ==
  [][\A c \in Conns :
       (wire[c] # <<>> /\ wire'[c] = Tail(wire[c]) /\ ~knownEvent(Head(wire[c])))
         => forwarded' = forwarded]_vars

\* ------------------------------------------------- the client's view alone
\* The App's onMessage callback (handleIncoming) is handed an event; React
\* re-renders and the memo regroups the new view.
onMessage(msg) ==
  /\ view' = handleIncoming(view, msg)
  /\ forwarded' = forwarded + 1
  /\ grouped' = groupMessages(view')
  /\ UNCHANGED <<hubVars, netVars, mgrVars>>

\* Messages of two authors on both platforms, at the edges of the window.
GroupAuthors == {"u", "v"}
GroupTimes == {0, GROUP_WINDOW_MS - 1, GROUP_WINDOW_MS, GROUP_WINDOW_MS + 1}
GroupInputs ==
  {[ChatMessage(1, p, t, "a") EXCEPT !.author = a] :
     p \in Platforms, t \in GroupTimes, a \in GroupAuthors}

NextGroup == \E m \in GroupInputs : forwarded < MaxForwards /\ onMessage(m)

SpecGroup == Init /\ [][NextGroup]_vars

\* The position in the view of the first member of group g.
RECURSIVE startOf(_, _)
startOf(groups, g) ==
  IF g = 1 THEN 1 ELSE startOf(groups, g - 1) + Len(groups[g - 1].messages)

groupStarts == {startOf(grouped, g) : g \in 1..Len(grouped)}

\* The first message of the group that holds position i of the view.
leadAt(i) ==
  LET before == {k \in groupStarts : k <= i}
  IN view[CHOOSE k \in before : \A j \in before : j <= k]

\* C15: scanning the view in order, a message joins the current group iff
\* there is one, its platform and author name are those of the group's first
\* message and its timestamp is within 5 minutes of that first message's;
\* otherwise it starts a new group.
C15_GroupingRule ==
  \A i \in 1..Len(view) :
    (i \notin groupStarts) <=>
      /\ i > 1
      /\ view[i].platform = leadAt(i - 1).platform
      /\ view[i].author = leadAt(i - 1).author
      /\ Abs(view[i].timestamp - leadAt(i - 1).timestamp) <= 5 * 60 * 1000

\* one author: 0 and 299,999 ms share a group, 300,001 ms starts the next one
\* although it is 2 ms after the previous message
C15_Witness ==
  /\ Len(view) = 3
  /\ \A i \in 1..3 : view[i].platform = "discord" /\ view[i].author = "u"
  /\ view[1].timestamp = 0
  /\ view[2].timestamp = 299999
  /\ view[3].timestamp = 300001
  /\ Len(grouped) = 2
  /\ grouped[1].messages = <<view[1], view[2]>>
  /\ grouped[2].messages = <<view[3]>>

\* Events for the reducer: messages with two ids on both platforms, edits and
\* deletes of either id, and a History of at most one message.
ViewIds == 1..(MaxId + 1)
ViewMessages == {ChatMessage(id, p, 1, "a") : id \in ViewIds, p \in Platforms}
EditInputs == {DiscordEditedMessage(id, "b") : id \in ViewIds}
DeleteInputs == {DeletedMessage(id, p) : id \in ViewIds, p \in Platforms}
HistoryInputs == {HistoryMessage(<<>>)} \cup {HistoryMessage(<<m>>) : m \in ViewMessages}
ReduceInputs == ViewMessages \cup EditInputs \cup DeleteInputs \cup HistoryInputs

NextReduce == \E e \in ReduceInputs : forwarded < MaxForwards /\ onMessage(e)

SpecReduce == Init /\ [][NextReduce]_vars

\* `after` is `before` without the entries at the positions in `gone`, the
\* rest in their order.
removedExactly(before, gone, after) ==
  LET kept == (1..Len(before)) \ gone
      rank(i) == Cardinality({j \in kept : j <= i})
  IN /\ Len(after) = Cardinality(kept)
     /\ \A i \in kept : after[rank(i)] = before[i]

\* C16: reducing Delete{id, platform} removes exactly the entries that match
\* both id and platform and keeps the others in their order: an entry with the
\* same id on the other platform stays, a delete that matches nothing changes
\* nothing.
C16_ReducerDelete ==
  [][\A e \in DeleteInputs :
       view' = handleIncoming(view, e) =>
         LET gone == {i \in 1..Len(view) :
                        view[i].id = e.id /\ view[i].platform = e.platform}
         IN /\ removedExactly(view, gone, view')
            /\ gone = {} => view' = view]_vars

\* id 1 was in the view on both platforms, one of them was deleted
C16_Witness ==
  /\ forwarded = 3
  /\ Len(view) = 1
  /\ view[1].id = 1
  /\ view[1].platform = "youtube"

\* C17: reducing Edit{id, content} gives every entry with that id the new
\* content and edited = true and leaves every other entry, the length and the
\* order as they were; an edit that matches nothing changes nothing.
C17_ReducerEdit ==
  [][\A e \in EditInputs :
       view' = handleIncoming(view, e) =>
         /\ Len(view') = Len(view)
         /\ \A i \in 1..Len(view) :
              IF view[i].id = e.id
                THEN /\ view'[i].content = e.content
                     /\ view'[i].edited = TRUE
                     /\ [view'[i] EXCEPT !.content = view[i].content,
                                         !.edited = view[i].edited] = view[i]
                ELSE view'[i] = view[i]
         /\ (\A i \in 1..Len(view) : view[i].id # e.id) => view' = view]_vars

\* id 1 on both platforms edited, id 2 untouched
C17_Witness ==
  /\ Len(view) = 2
  /\ view[1].id = 1 /\ view[1].content = "b" /\ view[1].edited
  /\ view[2].id = 2 /\ view[2].content = "a" /\ ~view[2].edited

\* The buffer once the event e has been applied to it.
applied(buf, e) ==
  CASE e.type = "message" -> addToBuffer(buf, e)
    [] e.type = "edit" -> editInBuffer(buf, e.id, e.content)
    [] e.type = "delete" -> removeFromBuffer(buf, e.id)

\* C18: when a Message, Edit or Delete is sent to the joined connections, the
\* buffer already holds that event's append, edit or removal.
C18_MutationBeforeSend ==
  [][(published /\ clients # {}) => bufferAtSend' = applied(messageBuffer, lastPublished)]_vars

\* The relay driven past its capacity with one viewer.  Message n has id
\* ceil(n / 2), so every id comes once from Discord and once from YouTube, and
\* the timestamps run against the arrival order.  The viewer is joined before
\* the first message or once the buffer is within one entry of its capacity;
\* deletes and disconnects come in near the capacity as well.  The server
\* publishes only when no frame is in flight to a connection.
floodMessages == MAX_BUFFER_SIZE + ExtraAppends
floodId(n) == (n + 1) \div 2
floodTimestamp(n) == floodMessages + 1 - n
inFlight == \E c \in Conns : wire[c] # <<>>
nearCapacity == Len(messageBuffer) >= MAX_BUFFER_SIZE - 1

NextFlood ==
  \/ /\ appended < floodMessages
     /\ ~inFlight
     /\ appended % 2 = 0
     /\ messageCreate(floodId(appended + 1), floodTimestamp(appended + 1), "a")
  \/ /\ appended < floodMessages
     /\ ~inFlight
     /\ appended % 2 = 1
     /\ addChatItemAction(floodId(appended + 1), floodTimestamp(appended + 1), "a")
  \/ /\ Len(pubLog) - appended < MaxMutations
     /\ ~inFlight
     /\ nearCapacity
     /\ \E id \in {floodId(appended)} : messageDelete(id) \/ markChatItemAsDeletedAction(id)
  \/ mount
  \/ \E c \in Conns : (pubLog = <<>> \/ nearCapacity) /\ open(c)
  \/ \E c \in Conns : openEvent(c, 0)
  \/ \E c \in Conns : messageEvent(c)
  \/ \E c \in Conns : nearCapacity /\ closeEvent(c, 0)
  \/ \E i \in 1..Len(timers) : timerFires(i)

SpecFlood == Init /\ [][NextFlood]_vars

\* C14: the client's view never holds more than 100 entries.
C14_ViewBound == Len(view) <= 100

\* a full view took one more message
C14_Witness ==
  /\ Len(view) = 100
  /\ appended > 100
  /\ forwarded >= 2
  /\ view[100] = pubLog[Len(pubLog)]

\* The (id, platform) identities of the messages of a sequence.
identities(s) == {<<s[i].id, s[i].platform>> : i \in 1..Len(s)}

\* The manager is connected on connection c, which the server has joined, and
\* every frame sent on it was reduced.
caughtUp(c) ==
  /\ socketRef = c
  /\ connectionState = "connected"
  /\ c \in clients
  /\ wire[c] = <<>>

\* C19: for a client that stays connected after its join and has reduced
\* every event delivered to it, the identities in the view are those in the
\* server buffer.
C19_ViewTracksBuffer ==
  \A c \in Conns : caughtUp(c) => identities(view) = identities(messageBuffer)

\* C20: the manager never has more than one connection with its handlers
\* attached, more than one pending reconnect timer or more than one probe
\* interval, and a probe interval runs only while the exposed state is
\* connected.
C20_SingleConnectionTimerProbe ==
  /\ Cardinality(handlers) <= 1
  /\ Len(timers) <= 1
  /\ Cardinality(intervals) <= 1
  /\ intervals # {} => connectionState = "connected"

\* connected again on the second socket, its probe running
C20_Witness ==
  /\ retryRef >= 1
  /\ connectionState = "connected"
  /\ socketRef = 2
  /\ handlers = {2}
  /\ intervals = {2}

\* The members of the first n groups, one group after the other.
RECURSIVE membersOf(_, _)
membersOf(groups, n) ==
  IF n = 0 THEN <<>> ELSE membersOf(groups, n - 1) \o groups[n].messages

\* C21: the groups partition the view: no group is empty, the lead of each
\* group is its first member, and the members of the groups, taken in output
\* order, are exactly the view.
C21_GroupsPartitionView ==
  /\ \A g \in 1..Len(grouped) :
       /\ grouped[g].messages # <<>>
       /\ grouped[g].first = grouped[g].messages[1]
  /\ membersOf(grouped, Len(grouped)) = view

\* three messages in two groups, the second group with two members
C21_Witness ==
  /\ Len(view) = 3
  /\ Len(grouped) = 2
  /\ Len(grouped[1].messages) = 1
  /\ Len(grouped[2].messages) = 2
  /\ grouped[2].first = view[2]

====
